---- MODULE Spec2Model ----
(***************************************************************************)
(* Chat-with-MySQL (src/src/app.py): the question-to-answer pipeline       *)
(* get_response (generate, sanitize, validate, execute, record,            *)
(* synthesize, classify errors) and the Streamlit chat-input handler that  *)
(* drives it.                                                              *)
(*                                                                         *)
(* A text (Python str) is a sequence of one-character strings, so that     *)
(* strip, upper, lower, startswith, endswith, "in" and slicing are         *)
(* computed character by character, as Python computes them.               *)
(***************************************************************************)
EXTENDS Naturals, Sequences, FiniteSets

VARIABLES
    db,              \* "db" in st.session_state (a connection was established)
    dbSchema,        \* what db.get_table_info() returns right now
    chat_history,    \* st.session_state.chat_history
    query_history,   \* st.session_state.query_history
    pc,              \* where the chat-input handler is blocked, or how it ended
    clock,           \* datetime.now()
    turns,           \* lines submitted to the chat input so far
    user_query,      \* the locals of get_response
    generated_query,
    validated_query,
    query_results,
    response,        \* what get_response returned
    err,             \* the exception get_response caught
    failed,          \* the stage that raised it
    st_error,        \* texts shown by st.error while the last line was handled
    calls,           \* calls made to the collaborators meanwhile, in order
    val,             \* what validate_query did
    fn,              \* function harness: the function applied
    arg,             \* function harness: its argument
    ret              \* function harness: its return value

vars == <<db, dbSchema, chat_history, query_history, pc, clock, turns,
          user_query, generated_query, validated_query, query_results,
          response, err, failed, st_error, calls, val, fn, arg, ret>>

pipeVars == <<db, dbSchema, chat_history, query_history, pc, clock, turns,
              user_query, generated_query, validated_query, query_results,
              response, err, failed, st_error>>

(***************************************************************************)
(* Bounds of the model.                                                    *)
(***************************************************************************)
\* pieces concatenated into an argument text of the function harness
MaxPieces == 3
\* pieces concatenated into a corrector output of the function harness
MaxValPieces == 2
\* lines submitted to the chat input in a session
MaxTurns == 2
\* schema changes during a session
MaxSchema == 1

(***************************************************************************)
(* Python str operations.                                                  *)
(***************************************************************************)
Lower26 == <<"a", "b", "c", "d", "e", "f", "g", "h", "i", "j", "k", "l", "m",
             "n", "o", "p", "q", "r", "s", "t", "u", "v", "w", "x", "y", "z">>

Upper26 == <<"A", "B", "C", "D", "E", "F", "G", "H", "I", "J", "K", "L", "M",
             "N", "O", "P", "Q", "R", "S", "T", "U", "V", "W", "X", "Y", "Z">>

CharUpper(c) ==
    IF \E i \in DOMAIN Lower26 : Lower26[i] = c
    THEN Upper26[CHOOSE i \in DOMAIN Lower26 : Lower26[i] = c]
    ELSE c

CharLower(c) ==
    IF \E i \in DOMAIN Upper26 : Upper26[i] = c
    THEN Lower26[CHOOSE i \in DOMAIN Upper26 : Upper26[i] = c]
    ELSE c

\* str.upper()
Upper(s) == [i \in DOMAIN s |-> CharUpper(s[i])]

\* str.lower()
Lower(s) == [i \in DOMAIN s |-> CharLower(s[i])]

IsSpace(c) == c \in {" ", "\n", "\t", "\r"}

RECURSIVE LStrip(_)
LStrip(s) == IF s # <<>> /\ IsSpace(Head(s)) THEN LStrip(Tail(s)) ELSE s

RECURSIVE RStrip(_)
RStrip(s) ==
    IF s # <<>> /\ IsSpace(s[Len(s)]) THEN RStrip(SubSeq(s, 1, Len(s) - 1)) ELSE s

\* str.strip()
Strip(s) == RStrip(LStrip(s))

\* s.startswith(p)
StartsWith(s, p) == Len(s) >= Len(p) /\ SubSeq(s, 1, Len(p)) = p

\* s.endswith(p)
EndsWith(s, p) == Len(s) >= Len(p) /\ SubSeq(s, Len(s) - Len(p) + 1, Len(s)) = p

\* p in s
Contains(s, p) ==
    \E i \in 0..Len(s) : i + Len(p) <= Len(s) /\ SubSeq(s, i + 1, i + Len(p)) = p

\* s[n:]
DropFirst(s, n) == SubSeq(s, n + 1, Len(s))

\* s[:-n]
DropLast(s, n) == SubSeq(s, 1, Len(s) - n)

\* The backquote character (the lexer of the parser mishandles a literal one).
Backtick == "backquote"

(***************************************************************************)
(* Literals of the program.                                                *)
(***************************************************************************)
Greeting ==
    <<"H", "e", "l", "l", "o", "!", " ", "I", "'", "m", " ", "a", " ",
       "S", "Q", "L", " ", "a", "s", "s", "i", "s", "t", "a", "n", "t",
       ".", " ", "A", "s", "k", " ", "m", "e", " ", "a", "n", "y", "t",
       "h", "i", "n", "g", " ", "a", "b", "o", "u", "t", " ", "y", "o",
       "u", "r", " ", "d", "a", "t", "a", "b", "a", "s", "e", ".">>

\* ("SELECT", "INSERT", "UPDATE", "DELETE")
AcceptedVerbs ==
    { <<"S", "E", "L", "E", "C", "T">>,
      <<"I", "N", "S", "E", "R", "T">>,
      <<"U", "P", "D", "A", "T", "E">>,
      <<"D", "E", "L", "E", "T", "E">> }

\* the fence-open markers of line 91, the one with the language tag first
FencePrefixes ==
    << <<Backtick, Backtick, Backtick, "s", "q", "l">>,
       <<Backtick, Backtick, Backtick>> >>

FenceClose == <<Backtick, Backtick, Backtick>>

ValidMarker == <<"v", "a", "l", "i", "d">>

ProgrammingErrorName ==
    <<"P", "r", "o", "g", "r", "a", "m", "m", "i", "n", "g", "E", "r",
       "r", "o", "r">>

ConnectionErrorName ==
    <<"C", "o", "n", "n", "e", "c", "t", "i", "o", "n", "E", "r", "r",
       "o", "r">>

EmptyResultMark == <<"E", "m", "p", "t", "y", "R", "e", "s", "u", "l", "t">>

DatabaseErrorHead ==
    <<"D", "a", "t", "a", "b", "a", "s", "e", " ", "e", "r", "r", "o",
       "r", ":", " ">>

DatabaseErrorTail ==
    <<".", " ", "P", "l", "e", "a", "s", "e", " ", "v", "e", "r", "i",
       "f", "y", " ", "y", "o", "u", "r", " ", "q", "u", "e", "r", "y",
       " ", "s", "y", "n", "t", "a", "x", ".">>

ConnectFailedMsg ==
    <<"F", "a", "i", "l", "e", "d", " ", "t", "o", " ", "c", "o", "n",
       "n", "e", "c", "t", " ", "t", "o", " ", "d", "a", "t", "a", "b",
       "a", "s", "e", ".", " ", "P", "l", "e", "a", "s", "e", " ", "c",
       "h", "e", "c", "k", " ", "y", "o", "u", "r", " ", "c", "o", "n",
       "n", "e", "c", "t", "i", "o", "n", " ", "s", "e", "t", "t", "i",
       "n", "g", "s", ".">>

NoResultsMsg ==
    <<"N", "o", " ", "r", "e", "s", "u", "l", "t", "s", " ", "f", "o",
       "u", "n", "d", " ", "m", "a", "t", "c", "h", "i", "n", "g", " ",
       "y", "o", "u", "r", " ", "c", "r", "i", "t", "e", "r", "i", "a",
       ".">>

FullDetailsHead ==
    <<"F", "u", "l", "l", " ", "e", "r", "r", "o", "r", " ", "d", "e",
       "t", "a", "i", "l", "s", ":", " ">>

ApologyMsg ==
    <<"S", "o", "r", "r", "y", ",", " ", "I", " ", "e", "n", "c", "o",
       "u", "n", "t", "e", "r", "e", "d", " ", "a", "n", " ", "u", "n",
       "e", "x", "p", "e", "c", "t", "e", "d", " ", "e", "r", "r", "o",
       "r", ".", " ", "T", "h", "e", " ", "t", "e", "c", "h", "n", "i",
       "c", "a", "l", " ", "d", "e", "t", "a", "i", "l", "s", " ", "h",
       "a", "v", "e", " ", "b", "e", "e", "n", " ", "l", "o", "g", "g",
       "e", "d", ".">>

ConnectFirstMsg ==
    <<"P", "l", "e", "a", "s", "e", " ", "c", "o", "n", "n", "e", "c",
       "t", " ", "t", "o", " ", "a", " ", "d", "a", "t", "a", "b", "a",
       "s", "e", " ", "f", "i", "r", "s", "t">>

NoRecordsMsg ==
    <<"N", "o", " ", "m", "a", "t", "c", "h", "i", "n", "g", " ", "r",
       "e", "c", "o", "r", "d", "s", " ", "f", "o", "u", "n", "d", ".">>

(***************************************************************************)
(* What the collaborators answer.  Every call to the Completion Service,   *)
(* the Schema Provider or the database may raise; a failure is the type    *)
(* name of the exception and its str().                                    *)
(***************************************************************************)
\* str(e): an ordinary message, and one that holds "EmptyResult"
PlainMsg == <<"b", "o", "o", "m">>

EmptyResultMsg == <<"E", "m", "p", "t", "y", "R", "e", "s", "u", "l", "t", " ", "s",
       "e", "t">>

ErrMsgs == {PlainMsg, EmptyResultMsg}

Error(type, msg) == [type |-> type, msg |-> msg]

\* exceptions of the Completion Service (its client and its completions)
LlmErrors ==
    { Error(<<"A", "P", "I", "C", "o", "n", "n", "e", "c", "t", "i", "o", "n",
       "E", "r", "r", "o", "r">>, PlainMsg),
      Error(<<"R", "a", "t", "e", "L", "i", "m", "i", "t", "E", "r", "r", "o",
       "r">>, PlainMsg) }

\* exceptions of the database (db.get_table_info, db.run)
DbErrors ==
    { Error(t, m) : t \in { <<"P", "r", "o", "g", "r", "a", "m", "m", "i", "n", "g", "E", "r",
       "r", "o", "r">>,
                            <<"O", "p", "e", "r", "a", "t", "i", "o", "n", "a", "l", "E", "r",
       "r", "o", "r">> },
                   m \in ErrMsgs }

\* no exception
NoErr == Error(<<>>, <<>>)

\* results of db.run: rows, or an empty row set
Results == {"rows", "empty"}

NoResults == "none"

\* no schema rendered
NoSchema == MaxSchema + 1

\* One call to a collaborator: the service, the stage that made it, and the
\* query, results and schema the call carried (a prompt's fields, or the
\* argument of db.run).
Call(svc, stage, query, results, schema) ==
    [svc |-> svc, stage |-> stage, query |-> query, results |-> results,
     schema |-> schema]

\* What a chain (schema fetch, prompt, llm, parser) meets when it is built and
\* invoked: the client constructor raises, the schema fetch raises, the
\* completion raises, or the completion returns text.
Outcome(kind, e, text) == [kind |-> kind, err |-> e, text |-> text]

ChainOutcomes(texts) ==
    { Outcome("client_raises", e, <<>>) : e \in LlmErrors }
    \cup { Outcome("schema_raises", e, <<>>) : e \in DbErrors }
    \cup { Outcome("llm_raises", e, <<>>) : e \in LlmErrors }
    \cup { Outcome("text", NoErr, t) : t \in texts }

\* mutant of ChainCalls: the completion is asked for twice
ChainCalls_AskTwice(kind, fetch, ask) ==
    CASE kind = "client_raises" -> <<>>
      [] kind = "schema_raises" -> <<fetch>>
      [] OTHER -> <<fetch, ask, ask>>

\* The calls a chain has made when it meets an outcome: the client is built
\* first, the schema is fetched when the chain is invoked, then the completion
\* is asked for.
ChainCalls(kind, fetch, ask) ==
    CASE kind = "client_raises" -> <<>>
      [] kind = "schema_raises" -> <<fetch>>
      [] OTHER -> <<fetch, ask>>

(***************************************************************************)
(* validate_query                                                          *)
(***************************************************************************)
\* s.strip().upper().startswith(("SELECT", "INSERT", "UPDATE", "DELETE"))
HasAcceptedVerb(s) == \E v \in AcceptedVerbs : StartsWith(Upper(Strip(s)), v)

\* mutant of SkipsValidation: the guard of line 53 is missing
SkipsValidation_Never(query) == FALSE

\* line 53: the guard that returns the query untouched
SkipsValidation(query) == ~HasAcceptedVerb(query)

\* mutant of CorrectionAccepted: the marker word is not looked for
CorrectionAccepted_NoMarker(validated) == HasAcceptedVerb(validated)

\* line 82, negated: the output of the corrector is taken
CorrectionAccepted(validated) ==
    ~(Contains(Lower(validated), ValidMarker) \/ ~HasAcceptedVerb(validated))

\* validate_query(db, query) when the chain meets outcome o and the Schema
\* Provider holds schema: the value returned or the exception raised, the
\* local "validated" (the raw output of the corrector), the branch taken and
\* the calls made.
validate_query(schema, query, o) ==
    LET fetch == Call("schema", "validate", <<>>, NoResults, schema)
        ask == Call("llm", "validate", query, NoResults, schema)
        R(raised, e, value, validated, branch, cs) ==
            [raised |-> raised, err |-> e, value |-> value,
             validated |-> validated, branch |-> branch, calls |-> cs]
    IN  IF SkipsValidation(query) THEN R(FALSE, NoErr, query, <<>>, "guard", <<>>)
        ELSE CASE o.kind = "client_raises" ->
                      \* ChatGroq(...) on line 71 is outside the try of line 80
                      R(TRUE, o.err, <<>>, <<>>, "raised", <<>>)
               [] o.kind = "schema_raises" ->
                      R(FALSE, NoErr, query, <<>>, "except", <<fetch>>)
               [] o.kind = "llm_raises" ->
                      R(FALSE, NoErr, query, <<>>, "except", <<fetch, ask>>)
               [] OTHER ->
                      IF CorrectionAccepted(o.text)
                      THEN R(FALSE, NoErr, o.text, o.text, "accepted", <<fetch, ask>>)
                      ELSE R(FALSE, NoErr, query, o.text, "rejected", <<fetch, ask>>)

\* validate_query has not run
NoVal == [raised |-> FALSE, err |-> NoErr, value |-> <<>>, validated |-> <<>>,
          branch |-> "none", calls |-> <<>>]

(***************************************************************************)
(* sanitize_query                                                          *)
(***************************************************************************)
\* lines 92-93, for one prefix
StripPrefix(query, prefix) ==
    IF StartsWith(query, prefix) THEN Strip(DropFirst(query, Len(prefix))) ELSE query

\* lines 94-95
StripFenceClose(query) ==
    IF EndsWith(query, FenceClose) THEN Strip(DropLast(query, 3)) ELSE query

sanitize_query(query) ==
    StripFenceClose(
        StripPrefix(StripPrefix(Strip(query), FencePrefixes[1]), FencePrefixes[2]))

(***************************************************************************)
(* Inputs.                                                                 *)
(***************************************************************************)
\* what generated text is made of: whitespace, a fence marker, a language
\* tag, a verb in lower case, the marker word in mixed case, other text
Pieces ==
    { <<" ">>,
      <<Backtick, Backtick, Backtick>>,
      <<"s", "q", "l">>,
      <<"s", "e", "l", "e", "c", "t">>,
      <<"V", "a", "l", "i", "d">>,
      <<"x">> }

RECURSIVE TextsUpTo(_)
TextsUpTo(n) ==
    IF n = 0 THEN {<<>>}
    ELSE LET T == TextsUpTo(n - 1) IN T \cup {t \o p : t \in T, p \in Pieces}

\* arguments of sanitize_query in the function harness
ArgTexts == TextsUpTo(MaxPieces)

\* candidates and corrector outputs of validate_query in the function harness
CorrectorTexts == TextsUpTo(MaxValPieces)

HarnessOutcomes == ChainOutcomes(CorrectorTexts)

(***************************************************************************)
(* Initial state of a session (lines 195-198; nothing is connected and     *)
(* nothing was asked), and the function harness at rest.                   *)
(***************************************************************************)
Message(role, content) == [role |-> role, content |-> content]

SessionInit ==
    /\ db = FALSE
    /\ dbSchema = 0
    /\ chat_history = <<Message("AI", Greeting)>>
    /\ query_history = <<>>
    /\ pc = "idle"
    /\ clock = 0
    /\ turns = 0
    /\ user_query = <<>>
    /\ generated_query = <<>>
    /\ validated_query = <<>>
    /\ query_results = NoResults
    /\ response = <<>>
    /\ err = NoErr
    /\ failed = "none"
    /\ st_error = <<>>

(***************************************************************************)
(* The function harness: sanitize_query and validate_query applied to      *)
(* every argument text (the except clause joins them below).               *)
(***************************************************************************)
InitFn ==
    /\ SessionInit
    /\ calls = <<>>
    /\ val = NoVal
    /\ fn = "none"
    /\ arg \in ArgTexts
    /\ ret = <<>>

CallSanitize ==
    /\ fn = "none"
    /\ fn' = "sanitize_query"
    /\ ret' = sanitize_query(arg)
    /\ UNCHANGED <<pipeVars, calls, val, arg>>

CallValidate ==
    /\ fn = "none"
    /\ arg \in CorrectorTexts
    /\ \E o \in HarnessOutcomes : val' = validate_query(dbSchema, arg, o)
    /\ ret' = val'.value
    /\ calls' = val'.calls
    /\ fn' = "validate_query"
    /\ UNCHANGED <<pipeVars, arg>>
(***************************************************************************)
(* The session: what the environment can supply.                           *)
(***************************************************************************)
\* what st.chat_input returns: a blank line, or a question
Questions ==
    { <<" ">>,
      <<"h", "i">> }

\* raw generated text: a fenced statement with a language tag, and a
\* statement of another kind
GenTexts ==
    { <<Backtick, Backtick, Backtick, "s", "q", "l", "\n", "S", "E", "L",
       "E", "C", "T", " ", "x", "\n", Backtick, Backtick, Backtick>>,
      <<"d", "r", "o", "p", " ", "x">> }

\* raw corrector output: a correction, and commentary
PipelineCorrectorTexts ==
    { <<"s", "e", "l", "e", "c", "t", " ", "y">>,
      <<"T", "h", "e", " ", "q", "u", "e", "r", "y", " ", "i", "s", " ",
       "v", "a", "l", "i", "d">> }

\* synthesized answers: free text, and the reply the prompt asks for on empty
\* results
AnswerTexts == { <<"4", "2">>, NoRecordsMsg }

GenOutcomes == ChainOutcomes(GenTexts)

ValOutcomes == ChainOutcomes(PipelineCorrectorTexts)

SynOutcomes == ChainOutcomes(AnswerTexts)

\* db.run raises, or returns a result
RunOutcomes ==
    { [kind |-> "raises", err |-> e, results |-> NoResults] : e \in DbErrors }
    \cup { [kind |-> "returns", err |-> NoErr, results |-> r] : r \in Results }

(***************************************************************************)
(* get_response, lines 181-192: the except clause.                         *)
(***************************************************************************)
\* mutant of classify: the last branch returns nothing
classify_NoElse(e) ==
    IF Contains(e.type, ProgrammingErrorName)
    THEN DatabaseErrorHead \o e.msg \o DatabaseErrorTail
    ELSE IF Contains(e.type, ConnectionErrorName) THEN ConnectFailedMsg
    ELSE IF Contains(e.msg, EmptyResultMark) THEN NoResultsMsg
    ELSE <<>>

\* mutant of classify: the message text is looked at first
classify_EmptyResultFirst(e) ==
    IF Contains(e.msg, EmptyResultMark) THEN NoResultsMsg
    ELSE IF Contains(e.type, ProgrammingErrorName)
    THEN DatabaseErrorHead \o e.msg \o DatabaseErrorTail
    ELSE IF Contains(e.type, ConnectionErrorName) THEN ConnectFailedMsg
    ELSE ApologyMsg

\* the message returned for exception e
classify(e) ==
    IF Contains(e.type, ProgrammingErrorName)
    THEN DatabaseErrorHead \o e.msg \o DatabaseErrorTail
    ELSE IF Contains(e.type, ConnectionErrorName) THEN ConnectFailedMsg
    ELSE IF Contains(e.msg, EmptyResultMark) THEN NoResultsMsg
    ELSE ApologyMsg

\* what st.error shows for exception e (line 191, the last branch only)
shown_details(e) ==
    IF \/ Contains(e.type, ProgrammingErrorName)
       \/ Contains(e.type, ConnectionErrorName)
       \/ Contains(e.msg, EmptyResultMark)
    THEN <<>>
    ELSE <<FullDetailsHead \o e.msg>>

\* mutant of Fails: the message returned is not appended to the chat history
Fails_Unanswered(stage, e, cs) ==
    /\ err' = e
    /\ failed' = stage
    /\ calls' = calls \o cs
    /\ response' = classify(e)
    /\ st_error' = shown_details(e)
    /\ chat_history' = chat_history
    /\ pc' = "done"

\* An exception e raised in a stage of get_response after the calls cs: the
\* except clause returns a message, and the handler (lines 258-260) appends it
\* to the chat history.
Fails(stage, e, cs) ==
    /\ err' = e
    /\ failed' = stage
    /\ calls' = calls \o cs
    /\ response' = classify(e)
    /\ st_error' = shown_details(e)
    /\ chat_history' = Append(chat_history, Message("AI", classify(e)))
    /\ pc' = "done"

\* the stages of get_response an exception can come from
Stages == {"generate", "validate", "execute", "synthesize"}

\* type names the except clause is tried on: those of the collaborators, and
\* one that holds both of the names looked for
ClassifierTypes ==
    { <<"P", "r", "o", "g", "r", "a", "m", "m", "i", "n", "g", "E", "r",
       "r", "o", "r">>,
      <<"O", "p", "e", "r", "a", "t", "i", "o", "n", "a", "l", "E", "r",
       "r", "o", "r">>,
      <<"A", "P", "I", "C", "o", "n", "n", "e", "c", "t", "i", "o", "n",
       "E", "r", "r", "o", "r">>,
      <<"R", "a", "t", "e", "L", "i", "m", "i", "t", "E", "r", "r", "o",
       "r">>,
      ProgrammingErrorName \o ConnectionErrorName }

ClassifierErrors == { Error(t, m) : t \in ClassifierTypes, m \in ErrMsgs }

\* the function harness: the except clause applied to every exception, as
\* raised in every stage
CallExcept ==
    /\ fn = "none"
    /\ arg = <<>>
    /\ \E stage \in Stages, e \in ClassifierErrors : Fails(stage, e, <<>>)
    /\ fn' = "except"
    /\ UNCHANGED <<db, dbSchema, query_history, clock, turns, user_query,
                   generated_query, validated_query, query_results, val, arg,
                   ret>>

NextFn == CallSanitize \/ CallValidate \/ CallExcept

FnSpec == InitFn /\ [][NextFn]_vars

\* lines 217-227: the Connect button stores a connection in the session
Connect ==
    /\ pc \in {"idle", "done", "stopped"}
    /\ db' = TRUE
    /\ UNCHANGED <<dbSchema, chat_history, query_history, pc, clock, turns,
                   user_query, generated_query, validated_query, query_results,
                   response, err, failed, st_error, calls, val, fn, arg, ret>>

\* the database's schema changes (another client, or the executed statement)
SchemaChange ==
    /\ dbSchema < MaxSchema
    /\ dbSchema' = dbSchema + 1
    /\ UNCHANGED <<db, chat_history, query_history, pc, clock, turns,
                   user_query, generated_query, validated_query, query_results,
                   response, err, failed, st_error, calls, val, fn, arg, ret>>

(***************************************************************************)
(* The chat-input handler, lines 239-260, up to the first completion.      *)
(***************************************************************************)
\* mutant of NoConnection: the session is never found without a connection
NoConnection_Never(session_db) == FALSE

\* line 248: "db" not in st.session_state
NoConnection(session_db) == ~session_db

Submit(q) ==
    /\ pc \in {"idle", "done", "stopped"}
    /\ turns < MaxTurns
    /\ turns' = turns + 1
    /\ clock' = clock + 1
    /\ generated_query' = <<>>
    /\ validated_query' = <<>>
    /\ query_results' = NoResults
    /\ response' = <<>>
    /\ err' = NoErr
    /\ failed' = "none"
    /\ calls' = <<>>
    /\ val' = NoVal
    /\ IF Strip(q) = <<>>
       THEN /\ pc' = "idle"
            /\ user_query' = <<>>
            /\ st_error' = <<>>
            /\ UNCHANGED chat_history
       ELSE /\ chat_history' = Append(chat_history, Message("Human", q))
            /\ IF NoConnection(db)
               THEN /\ st_error' = <<ConnectFirstMsg>>
                    /\ user_query' = <<>>
                    /\ pc' = "stopped"
               ELSE /\ st_error' = <<>>
                    /\ user_query' = q
                    /\ pc' = "generating"
    /\ UNCHANGED <<db, dbSchema, query_history, fn, arg, ret>>

(***************************************************************************)
(* get_response, lines 141-179, one action per blocking call.              *)
(***************************************************************************)
\* lines 142-146: get_sql_chain(db).invoke(...), then sanitize_query
Generate ==
    /\ pc = "generating"
    /\ \E o \in GenOutcomes :
         LET fetch == Call("schema", "generate", <<>>, NoResults, dbSchema)
             ask == Call("llm", "generate", <<>>, NoResults, dbSchema)
             cs == ChainCalls(o.kind, fetch, ask)
         IN  IF o.kind = "text"
             THEN /\ generated_query' = sanitize_query(o.text)
                  /\ calls' = calls \o cs
                  /\ pc' = "validating"
                  /\ UNCHANGED <<chat_history, response, err, failed, st_error>>
             ELSE /\ Fails("generate", o.err, cs)
                  /\ UNCHANGED generated_query
    /\ UNCHANGED <<db, dbSchema, query_history, clock, turns, user_query,
                   validated_query, query_results, val, fn, arg, ret>>

\* line 148: validate_query(db, generated_query)
Validate ==
    /\ pc = "validating"
    /\ \E o \in ValOutcomes :
         LET r == validate_query(dbSchema, generated_query, o)
         IN  /\ val' = r
             /\ IF r.raised
                THEN /\ Fails("validate", r.err, r.calls)
                     /\ UNCHANGED validated_query
                ELSE /\ validated_query' = r.value
                     /\ calls' = calls \o r.calls
                     /\ pc' = "executing"
                     /\ UNCHANGED <<chat_history, response, err, failed, st_error>>
    /\ UNCHANGED <<db, dbSchema, query_history, clock, turns, user_query,
                   generated_query, query_results, fn, arg, ret>>

\* mutant of append_entry: the entry is put in front of the log
append_entry_InFront(log, entry) == <<entry>> \o log

\* mutant of append_entry: the entry is dropped
append_entry_Dropped(log, entry) == log

\* lines 158-160: st.session_state.query_history.append(debug_entry)
append_entry(log, entry) == Append(log, entry)

\* mutant of debug_entry: the generated query is recorded as the validated one
debug_entry_Unvalidated ==
    [timestamp |-> clock, question |-> user_query,
     generated_query |-> generated_query, validated_query |-> generated_query,
     results |-> query_results']

\* lines 151-157
debug_entry ==
    [timestamp |-> clock, question |-> user_query,
     generated_query |-> generated_query, validated_query |-> validated_query,
     results |-> query_results']

\* lines 149-160: db.run(validated_query), then the entry is appended
Execute ==
    /\ pc = "executing"
    /\ \E o \in RunOutcomes :
         LET run == Call("db", "execute", validated_query, NoResults, NoSchema)
         IN  IF o.kind = "raises"
             THEN /\ Fails("execute", o.err, <<run>>)
                  /\ UNCHANGED <<query_results, query_history>>
             ELSE /\ query_results' = o.results
                  /\ query_history' = append_entry(query_history, debug_entry)
                  /\ calls' = Append(calls, run)
                  /\ pc' = "synthesizing"
                  /\ UNCHANGED <<chat_history, response, err, failed, st_error>>
    /\ UNCHANGED <<db, dbSchema, clock, turns, user_query, generated_query,
                   validated_query, val, fn, arg, ret>>

\* lines 162-179 and 258-260: the response chain, then the answer is shown
\* and appended to the chat history
Synthesize ==
    /\ pc = "synthesizing"
    /\ \E o \in SynOutcomes :
         LET fetch == Call("schema", "synthesize", <<>>, NoResults, dbSchema)
             ask == Call("llm", "synthesize", validated_query, query_results,
                         dbSchema)
             cs == ChainCalls(o.kind, fetch, ask)
         IN  IF o.kind = "text"
             THEN /\ response' = o.text
                  /\ calls' = calls \o cs
                  /\ chat_history' = Append(chat_history, Message("AI", o.text))
                  /\ pc' = "done"
                  /\ UNCHANGED <<err, failed, st_error>>
             ELSE Fails("synthesize", o.err, cs)
    /\ UNCHANGED <<db, dbSchema, query_history, clock, turns, user_query,
                   generated_query, validated_query, query_results, val, fn,
                   arg, ret>>

Init ==
    /\ SessionInit
    /\ calls = <<>>
    /\ val = NoVal
    /\ fn = "none"
    /\ arg = <<>>
    /\ ret = <<>>

\* a session on a database whose schema stays as it is
Next ==
    \/ Connect
    \/ \E q \in Questions : Submit(q)
    \/ Generate
    \/ Validate
    \/ Execute
    \/ Synthesize

Spec == Init /\ [][Next]_vars

\* a session on a database whose schema changes meanwhile
NextEnv == Next \/ SchemaChange

EnvSpec == Init /\ [][NextEnv]_vars

(***************************************************************************)
(* Properties, stated apart from the code they are about.                  *)
(***************************************************************************)
\* t begins, ignoring case and surrounding whitespace, with verb v
BeginsWith(t, v) ==
    LET u == Strip(t)
    IN  Len(u) >= Len(v) /\ \A i \in 1..Len(v) : CharUpper(u[i]) = v[i]

BeginsWithVerb(t) == \E v \in AcceptedVerbs : BeginsWith(t, v)

\* t holds the word "valid" in any mix of cases
HoldsValidMarker(t) ==
    \E i \in 1..Len(t) :
        /\ i + Len(ValidMarker) - 1 <= Len(t)
        /\ \A k \in 1..Len(ValidMarker) : CharLower(t[i + k - 1]) = ValidMarker[k]

\* t begins with a fence-open marker, with or without the language tag
BeginsWithFence(t) == Len(t) >= 3 /\ \A i \in 1..3 : t[i] = Backtick

\* t ends with a fence-close marker
EndsWithFence(t) == Len(t) >= 3 /\ \A i \in 0..2 : t[Len(t) - i] = Backtick

\* t has whitespace at either end
HasOuterSpace(t) == t # <<>> /\ (IsSpace(t[1]) \/ IsSpace(t[Len(t)]))

\* the syntax/engine-error message for an engine message m
EngineErrorMsg(m) == DatabaseErrorHead \o m \o DatabaseErrorTail

\* the messages a failed turn can return
FailureMessages ==
    {ConnectFailedMsg, NoResultsMsg, ApologyMsg}
    \cup {EngineErrorMsg(m) : m \in ErrMsgs}

\* get_response returned text and the handler appended it as the AI turn
AnswerReturned ==
    /\ response # <<>>
    /\ chat_history[Len(chat_history)] = Message("AI", response)

\* the handler is blocked in a call of get_response
InFlight == pc \in {"generating", "validating", "executing", "synthesizing"}

\* C1 as claimed: db.run is only ever invoked with a query that begins,
\* ignoring case, with SELECT, INSERT, UPDATE or DELETE.
C1_ExecutorOnlyAcceptedVerbs ==
    \A i \in DOMAIN calls :
        calls[i].svc = "db" => BeginsWithVerb(calls[i].query)

\* C2 as claimed: when db.run raises, the turn returns the syntax/engine-error
\* message and the attempt log has gained a record of this attempt.
C2_ExecutionErrorIsLogged ==
    (pc = "done" /\ failed = "execute") =>
        /\ response = EngineErrorMsg(err.msg)
        /\ \E i \in DOMAIN query_history :
               /\ query_history[i].timestamp = clock
               /\ query_history[i].question = user_query

\* C3 as claimed: every turn started by a non-empty question ends with an
\* answer text returned to the user.
C3_EveryTurnAnswers ==
    pc \in {"done", "stopped"} => AnswerReturned

\* C3 as amended: in a turn started by a non-empty question while a
\* connection is established, a failure is always caught and classified into
\* one of the failure messages, and the turn ends with the text returned and
\* appended as the AI turn; a question submitted with no connection ends with
\* the connect-first notice and no answer text.
C3_PipelineTurnAnswers ==
    /\ InFlight => failed = "none"
    /\ failed # "none" =>
           (pc = "done" /\ err # NoErr /\ response \in FailureMessages)
    /\ pc = "done" => AnswerReturned
    /\ pc = "stopped" =>
           /\ response = <<>>
           /\ st_error = <<ConnectFirstMsg>>
           /\ chat_history[Len(chat_history)].role = "Human"

\* C3 witness: db.run raised, and the turn ended with a message returned.
C3_Witness ==
    /\ pc = "done"
    /\ failed = "execute"
    /\ response = ApologyMsg
    /\ AnswerReturned

\* C4 as claimed: no exception of the validation stage leaves validate_query,
\* so the validation stage never makes the turn fail.
C4_ValidationNeverFailsTurn ==
    ~val.raised /\ failed # "validate"

\* C5: for a candidate with an accepted verb prefix and any corrector output,
\* an output that holds the word "valid" or lacks an accepted verb prefix is
\* rejected and the original candidate is returned; the corrector output is
\* taken only when it passes both conditions, and then it is what is returned.
C5_CorrectorAcceptanceRule ==
    (fn = "validate_query" /\ val.branch \in {"accepted", "rejected"}
        /\ BeginsWithVerb(arg)) =>
        /\ (HoldsValidMarker(val.validated) \/ ~BeginsWithVerb(val.validated))
               => (val.branch = "rejected" /\ ret = arg)
        /\ val.branch = "accepted"
               => /\ ret = val.validated
                  /\ ~HoldsValidMarker(val.validated)
                  /\ BeginsWithVerb(val.validated)
        /\ val.branch = "rejected" => ret = arg

\* C5 witness: a corrector output that has an accepted verb prefix but holds
\* the marker word, and differs from the candidate, was rejected.
C5_Witness ==
    /\ fn = "validate_query"
    /\ val.branch = "rejected"
    /\ BeginsWithVerb(arg)
    /\ BeginsWithVerb(val.validated)
    /\ HoldsValidMarker(val.validated)
    /\ val.validated # arg
    /\ ret = arg

\* C6: a candidate that does not start (ignoring case, after trimming) with an
\* accepted verb is returned unchanged, without any call to the Completion
\* Service or the Schema Provider.
C6_GuardReturnsUnchanged ==
    (fn = "validate_query" /\ ~BeginsWithVerb(arg)) =>
        /\ ~val.raised
        /\ ret = arg
        /\ calls = <<>>

\* C6 witness: validate_query ran on a candidate with whitespace around it
\* and no accepted verb prefix, and returned it as it was.
C6_Witness ==
    /\ fn = "validate_query"
    /\ ~BeginsWithVerb(arg)
    /\ HasOuterSpace(arg)
    /\ Strip(arg) # <<>>
    /\ ret = arg
    /\ calls = <<>>

\* C7 as claimed: sanitize_query is idempotent, also on repeated fence
\* markers: sanitizing its own output changes nothing.
C7_SanitizeIdempotent ==
    fn = "sanitize_query" => sanitize_query(ret) = ret

\* C8 as claimed: the output of sanitize_query has no leading or trailing
\* whitespace, does not begin with a fence-open marker and does not end with a
\* fence-close marker.
C8_SanitizedIsBare ==
    fn = "sanitize_query" =>
        /\ ~HasOuterSpace(ret)
        /\ ~BeginsWithFence(ret)
        /\ ~EndsWithFence(ret)

\* C9 as claimed: when the Completion Service fails in the generation stage,
\* whatever the type of the failure, the turn returns the generic apology and
\* neither the Executor nor the Synthesizer is invoked.
C9_GenerationFailureApology ==
    (pc = "done" /\ failed = "generate" /\ err \in LlmErrors) =>
        /\ response = ApologyMsg
        /\ \A i \in DOMAIN calls :
               calls[i].svc # "db" /\ calls[i].stage = "generate"

\* C10 as claimed: within one turn every prompt that references the schema
\* uses the same schema snapshot, even if the schema changes meanwhile.
C10_OneSchemaPerTurn ==
    \A i, j \in DOMAIN calls :
        (calls[i].svc = "llm" /\ calls[j].svc = "llm")
            => calls[i].schema = calls[j].schema

\* the text d occurs inside the text t
OccursIn(d, t) ==
    \E i \in 1..(Len(t) - Len(d) + 1) :
        \A k \in 1..Len(d) : t[i + k - 1] = d[k]

\* the messages fixed by the category of a failure alone
CategoryMessages ==
    {EngineErrorMsg(<<>>), ConnectFailedMsg, NoResultsMsg, ApologyMsg}

\* C11 as claimed: the text returned for a failed turn is one of a fixed set
\* of messages chosen by the category of the failure alone, and the detail
\* text of the failure never occurs inside the returned text.
C11_NoDetailInReturnedText ==
    failed # "none" =>
        /\ response \in CategoryMessages
        /\ ~OccursIn(err.msg, response)

\* C13 as claimed: when db.run returns an empty row set, the answer of the
\* turn is exactly the fixed no-matching-records message, whatever the
\* Completion Service produced in the synthesis stage.
C13_EmptyResultFixedAnswer ==
    (pc = "done" /\ failed = "none" /\ query_results = "empty") =>
        response = NoRecordsMsg

\* C12: the attempt log is append-only.  A step lengthens it by at most one
\* entry and leaves every entry it held at its position with its field
\* values; the entries bear strictly increasing turn stamps, so no turn
\* contributes more than one, and the log is never longer than the number of
\* turns.
C12_AttemptLogAppendOnly ==
    /\ [][ /\ Len(query_history) <= Len(query_history')
           /\ Len(query_history') <= Len(query_history) + 1
           /\ \A i \in DOMAIN query_history :
                  query_history'[i] = query_history[i] ]_vars
    /\ [](/\ Len(query_history) <= turns
          /\ \A i, j \in DOMAIN query_history :
                 i < j => query_history[i].timestamp < query_history[j].timestamp)

\* C12 witness: two turns were logged, and the entry of the first turn is
\* still the first entry.
C12_Witness ==
    /\ Len(query_history) = 2
    /\ query_history[1].timestamp = 1
    /\ query_history[2].timestamp = clock
    /\ pc = "done"

\* the place of a stage in the order of the pipeline
StageRank(stage) ==
    CASE stage = "generate" -> 1
      [] stage = "validate" -> 2
      [] stage = "execute" -> 3
      [] stage = "synthesize" -> 4

\* the calls of this turn made to service svc
CallsTo(svc) == {i \in DOMAIN calls : calls[i].svc = svc}

\* the stage that runs after the handler has got to position p
Successors(p) ==
    CASE p = "generating" -> {"validating", "done"}
      [] p = "validating" -> {"executing", "done"}
      [] p = "executing" -> {"synthesizing", "done"}
      [] p = "synthesizing" -> {"done"}
      [] OTHER -> {"idle", "stopped", "generating"}

\* C14: within one turn the stages run in the order Generate, Sanitize,
\* Validate, Execute, Synthesize, each at most once; a failure that the
\* Validator does not absorb ends the turn at once, with no call of a later
\* stage; a turn asks the Completion Service at most three times and the
\* Executor at most once.
C14_StagesInOrder ==
    /\ [][pc' # pc => pc' \in Successors(pc)]_vars
    /\ [](/\ \A i, j \in DOMAIN calls :
                 i < j => StageRank(calls[i].stage) <= StageRank(calls[j].stage)
          /\ \A i, j \in DOMAIN calls :
                 (calls[i].svc = calls[j].svc /\ calls[i].stage = calls[j].stage)
                     => i = j
          /\ \A i \in CallsTo("db") : calls[i].stage = "execute"
          /\ Cardinality(CallsTo("llm")) <= 3
          /\ Cardinality(CallsTo("db")) <= 1
          /\ \A i \in CallsTo("llm") :
                 calls[i].stage = "validate" =>
                     calls[i].query = generated_query
          /\ pc = "generating" => calls = <<>>
          /\ pc = "validating" =>
                 \A i \in DOMAIN calls : calls[i].stage = "generate"
          /\ pc = "executing" => CallsTo("db") = {}
          /\ pc = "synthesizing" =>
                 (Cardinality(CallsTo("db")) = 1
                     /\ \A i \in DOMAIN calls : calls[i].stage # "synthesize")
          /\ failed # "none" =>
                 /\ pc = "done"
                 /\ \A i \in DOMAIN calls :
                        StageRank(calls[i].stage) <= StageRank(failed))

\* C14 witness: a turn ran all its stages, with three calls of the
\* Completion Service, one per stage and in order, and one of the Executor.
C14_Witness ==
    /\ pc = "done"
    /\ failed = "none"
    /\ Cardinality(CallsTo("llm")) = 3
    /\ Cardinality(CallsTo("db")) = 1
    /\ calls[Len(calls)].stage = "synthesize"

\* C15: the message of a failure is chosen by testing, in this order, whether
\* the type name holds "ProgrammingError", whether it holds "ConnectionError",
\* whether the message text holds "EmptyResult", and otherwise it is the
\* generic apology; the stage that raised the failure plays no part.
C15_ClassifierOrder ==
    failed # "none" =>
        LET isProgramming == OccursIn(ProgrammingErrorName, err.type)
            isConnection == OccursIn(ConnectionErrorName, err.type)
            isEmptyResult == OccursIn(EmptyResultMark, err.msg)
        IN  /\ isProgramming => response = EngineErrorMsg(err.msg)
            /\ (~isProgramming /\ isConnection) => response = ConnectFailedMsg
            /\ (~isProgramming /\ ~isConnection /\ isEmptyResult)
                   => response = NoResultsMsg
            /\ (~isProgramming /\ ~isConnection /\ ~isEmptyResult)
                   => response = ApologyMsg

\* C15 witness: a failure that passes all three tests, raised in the
\* synthesis stage, got the message of the first test.
C15_Witness ==
    /\ fn = "except"
    /\ failed = "synthesize"
    /\ OccursIn(ProgrammingErrorName, err.type)
    /\ OccursIn(ConnectionErrorName, err.type)
    /\ OccursIn(EmptyResultMark, err.msg)
    /\ response = EngineErrorMsg(err.msg)

\* C16: get_response is entered only for a question that is not blank and
\* only while the session holds a connection; a question submitted with no
\* connection leads to no call of the Completion Service, of the Schema
\* Provider or of the Executor, and leaves the attempt log as it was.
C16_PipelineEntry ==
    /\ [](InFlight => (db /\ Strip(user_query) # <<>>))
    /\ [](pc \in {"idle", "stopped"} => calls = <<>>)
    /\ [][(turns' # turns /\ ~db) =>
              /\ pc' \in {"idle", "stopped"}
              /\ calls' = <<>>
              /\ query_history' = query_history]_vars
    /\ [][(pc = "stopped" /\ pc' # pc) => turns' # turns]_vars

\* C16 witness: two questions were submitted with no connection, and nothing
\* was called or logged.
C16_Witness ==
    /\ pc = "stopped"
    /\ turns = 2
    /\ ~db
    /\ calls = <<>>
    /\ query_history = <<>>
    /\ Len(chat_history) = 3

\* db.run has returned in this turn
ExecutorReturned == query_results # NoResults

\* the newest entry of the attempt log
LastEntry == query_history[Len(query_history)]

\* C17: in a turn that reaches execution, the value returned by
\* validate_query is the query passed to the Executor, the validated_query of
\* the entry logged and the query of the synthesis prompt; the
\* generated_query logged is the output of sanitize_query (the candidate
\* given to the corrector); and the results of the synthesis prompt are the
\* return value of the Executor, as logged.
C17_OneValidatedQuery ==
    /\ \A i \in CallsTo("db") : calls[i].query = val.value
    /\ ExecutorReturned =>
           /\ query_history # <<>>
           /\ LastEntry.timestamp = clock
           /\ LastEntry.question = user_query
           /\ LastEntry.validated_query = val.value
           /\ LastEntry.generated_query \in {sanitize_query(t) : t \in GenTexts}
           /\ LastEntry.results = query_results
           /\ query_results \in Results
           /\ \A i \in CallsTo("db") :
                  calls[i].query = LastEntry.validated_query
           /\ \A i \in CallsTo("llm") :
                  /\ calls[i].stage = "validate" =>
                         calls[i].query = LastEntry.generated_query
                  /\ calls[i].stage = "synthesize" =>
                         /\ calls[i].query = LastEntry.validated_query
                         /\ calls[i].results = LastEntry.results

\* C17 witness: the corrector changed the query, and the corrected query was
\* executed, logged and rendered into the synthesis prompt.
C17_Witness ==
    /\ pc = "done"
    /\ failed = "none"
    /\ val.branch = "accepted"
    /\ LastEntry.validated_query # LastEntry.generated_query
    /\ \E i \in CallsTo("llm") :
           /\ calls[i].stage = "synthesize"
           /\ calls[i].query = LastEntry.validated_query
    /\ \E i \in CallsTo("db") : calls[i].query = LastEntry.validated_query

\* the attempt log holds an entry of the current turn
LoggedThisTurn == \E i \in DOMAIN query_history : query_history[i].timestamp = clock

\* C18: an entry is appended in a turn exactly when db.run returned in that
\* turn, and it is appended before synthesis: a turn that fails in synthesis
\* keeps its entry while the user gets a failure message, and a turn that
\* fails in generation, validation or execution leaves the log as it was.
C18_LoggedIffExecuted ==
    /\ [](LoggedThisTurn <=> ExecutorReturned)
    /\ [](pc = "synthesizing" => LoggedThisTurn)
    /\ [](failed = "synthesize" =>
              (LoggedThisTurn /\ response \in FailureMessages /\ AnswerReturned))
    /\ [](failed \in {"generate", "validate", "execute"} => ~LoggedThisTurn)
    /\ [][(failed' \in {"generate", "validate", "execute"} /\ failed = "none")
              => query_history' = query_history]_vars
    /\ [][query_history' # query_history =>
              (pc = "executing" /\ pc' = "synthesizing")]_vars

\* C18 witness: the synthesis stage failed, the user got the apology, and the
\* entry of the turn is in the log.
C18_Witness ==
    /\ pc = "done"
    /\ failed = "synthesize"
    /\ response = ApologyMsg
    /\ LoggedThisTurn
    /\ LastEntry.question = user_query

\* the newest turn of the chat history
LastTurn == chat_history[Len(chat_history)]

\* C19: the chat history only grows, one turn at a time and at its end; a
\* question that is not blank is appended as a Human turn before
\* get_response runs, so the history get_response is given ends with the
\* current question; the text returned is appended as the AI turn when
\* get_response has returned; and a question submitted with no connection
\* leaves a Human turn that no AI turn follows.
C19_ChatHistoryChronological ==
    /\ [][ /\ Len(chat_history) <= Len(chat_history')
           /\ Len(chat_history') <= Len(chat_history) + 1
           /\ \A i \in DOMAIN chat_history :
                  chat_history'[i] = chat_history[i] ]_vars
    /\ [](chat_history[1] = Message("AI", Greeting))
    /\ [](InFlight => LastTurn = Message("Human", user_query))
    /\ [](pc = "done" =>
              /\ LastTurn = Message("AI", response)
              /\ chat_history[Len(chat_history) - 1] = Message("Human", user_query))
    /\ [](pc = "stopped" => LastTurn.role = "Human")
    /\ [][(turns' # turns /\ pc' \in {"generating", "stopped"}) =>
              /\ Len(chat_history') = Len(chat_history) + 1
              /\ chat_history'[Len(chat_history')].role = "Human"]_vars
    /\ [][(turns' # turns /\ pc' = "idle") => chat_history' = chat_history]_vars
    /\ [][(InFlight /\ pc' # "done") => chat_history' = chat_history]_vars
    /\ [][(InFlight /\ pc' = "done") =>
              chat_history' = Append(chat_history, Message("AI", response'))]_vars

\* C19 witness: a question asked with no connection stays without an AI turn,
\* and the next question, asked after connecting, is followed by its answer.
C19_Witness ==
    /\ pc = "done"
    /\ Len(chat_history) = 4
    /\ chat_history[2].role = "Human"
    /\ chat_history[3] = Message("Human", user_query)
    /\ chat_history[4] = Message("AI", response)
    /\ failed = "none"
====
